---- MODULE Spec2Model ----
(***************************************************************************)
(* Model of src/03_analysis/match_minima.py: matching of conformer minima  *)
(* of several methods against a reference method, extraction of matched    *)
(* energies, relative energies, RMS errors and the per-molecule report.    *)
(*                                                                         *)
(* Floats are modelled by integers; NaN and None are sentinels outside the *)
(* range any computed number or index can take.  A square root is kept     *)
(* symbolic: an RMS error is the reduced fraction <<num, den>> under the   *)
(* root, and <<0, 0>> is the root of numpy's mean of an empty array (NaN). *)
(* Python lists are sequences; Python indices are kept 0-based as values.  *)
(* An exception that ends main is the state pc = "aborted", with its name  *)
(* in error.                                                               *)
(*                                                                         *)
(* Three specifications: Spec is main from match_minima to the report,     *)
(* SpecCmp is compare_two_mols on its own, SpecRead is read_mols with a    *)
(* slice on its own (main reads whole files, which Spec takes as given).   *)
(*                                                                         *)
(* Left out: main's readpickle branch and the plots, tag values that are   *)
(* not numerals, and molecules without conformers (the reader yields at    *)
(* least one conformer per molecule).                                      *)
(***************************************************************************)
EXTENDS Integers, Sequences, FiniteSets, TLC

VARIABLES in_dict, files, rmsd_cutoff, pc, error, method_idx, mol_names,
          mol_dict, matched_enes, rel_energies, lowest_conf_indices,
          rms_array, report, cmp_in, cmp_out, read_in, mlist

vars == <<in_dict, files, rmsd_cutoff, pc, error, method_idx, mol_names,
          mol_dict, matched_enes, rel_energies, lowest_conf_indices,
          rms_array, report, cmp_in, cmp_out, read_in, mlist>>

(***************************************************************************)
(* Bounds of the model.                                                    *)
(***************************************************************************)
MaxConfs == 2
MaxMols == 2

(***************************************************************************)
(* Sentinels of the program.                                               *)
(***************************************************************************)
NaN == 1000
None == 2000

Titles == {"a", "b"}
Geoms == {0, 1}
Cutoffs == {0, 1}
EnergyStrings == {"0", "1"}

IsNaN(x) == x = NaN

Min(S) == CHOOSE x \in S : \A y \in S : x <= y
Abs(x) == IF x < 0 THEN -x ELSE x

RECURSIVE Gcd(_, _)
Gcd(a, b) == IF b = 0 THEN a ELSE Gcd(b, a % b)

RECURSIVE SeqSum(_)
SeqSum(s) == IF s = <<>> THEN 0 ELSE Head(s) + SeqSum(Tail(s))

RECURSIVE Flatten(_)
Flatten(ss) == IF ss = <<>> THEN <<>> ELSE Head(ss) \o Flatten(Tail(ss))

(***************************************************************************)
(* Strings that the program inspects are sequences of characters.          *)
(***************************************************************************)
LowerChar(c) == CASE c = "E" -> "e" [] c = "X" -> "x" [] OTHER -> c
Lower(s) == [i \in DOMAIN s |-> LowerChar(s[i])]

\* Python's `needle in hay` on strings.
StrIn(needle, hay) ==
    \E i \in 0..(Len(hay) - Len(needle)) :
        SubSeq(hay, i + 1, i + Len(needle)) = needle

\* float(s) for the numerals the tag values are drawn from.
Float(s) == CASE s = "0" -> 0 [] s = "1" -> 1 [] s = "2" -> 2 [] s = "3" -> 3

\* The first SD data pair of a conformer whose tag contains taglabel
\* (case-insensitively), as a list of zero or one values.
SdOfConf(conf, taglabel) ==
    LET hits == {k \in DOMAIN conf.sd : StrIn(Lower(taglabel), Lower(conf.sd[k].tag))}
    IN  IF hits = {} THEN <<>> ELSE <<conf.sd[Min(hits)].value>>

get_sd_list(mol, taglabel) ==
    Flatten([j \in DOMAIN mol.confs |-> SdOfConf(mol.confs[j], taglabel)])

\* The geometry oracle: conformers are points on a line.
OERMSD(ref_conf, que_conf) == Abs(ref_conf.geom - que_conf.geom)

\* Index (0-based) of the first minimum of a non-empty list of RMSDs.
LowestRmsdIndex(thisR_allQ) ==
    Min({i \in DOMAIN thisR_allQ :
            \A k \in DOMAIN thisR_allQ : thisR_allQ[i] <= thisR_allQ[k]}) - 1

\* A match only strictly below the cutoff.
MatchOfConf_Strict(ref_conf, qmol, cutoff) ==
    LET thisR_allQ == [q \in DOMAIN qmol.confs |-> OERMSD(ref_conf, qmol.confs[q])]
        lowest_rmsd_index == LowestRmsdIndex(thisR_allQ)
    IN  IF thisR_allQ[lowest_rmsd_index + 1] < cutoff
        THEN lowest_rmsd_index
        ELSE None

MatchOfConf(ref_conf, qmol, cutoff) ==
    LET thisR_allQ == [q \in DOMAIN qmol.confs |-> OERMSD(ref_conf, qmol.confs[q])]
        lowest_rmsd_index == LowestRmsdIndex(thisR_allQ)
    IN  IF thisR_allQ[lowest_rmsd_index + 1] <= cutoff
        THEN lowest_rmsd_index
        ELSE None

\* One entry per query conformer instead of one per reference conformer.
compare_two_mols_PerQuery(rmol, qmol, cutoff) ==
    [r \in DOMAIN qmol.confs |-> MatchOfConf(rmol.confs[1], qmol, cutoff)]

compare_two_mols(rmol, qmol, cutoff) ==
    [r \in DOMAIN rmol.confs |-> MatchOfConf(rmol.confs[r], qmol, cutoff)]

(***************************************************************************)
(* match_minima.  The query generator is consumed across reference         *)
(* molecules: qpos is the number of query molecules already yielded.       *)
(***************************************************************************)
\* `for qmol in mols_query: if rmol.GetTitle() == qmol.GetTitle(): break`:
\* the position (1-based) of the molecule the loop stops at, 0 when the
\* generator is exhausted without a match.
ScanQuery(mols_query, qpos, title) ==
    LET hits == {i \in (qpos + 1)..Len(mols_query) : mols_query[i].title = title}
    IN  IF hits = {} THEN 0 ELSE Min(hits)

NewEntry == [energies |-> <<>>, indices |-> <<>>, ref_nconfs |-> <<>>]

Repeat(x, n) == [j \in 1..n |-> x]

\* The row of indices stored for a molecule found in the query file.
IndicesOfFound(rmol, qmol, sdf_query, sdf_ref, cutoff) ==
    IF sdf_query = sdf_ref
    THEN Repeat(-1, Len(rmol.confs))
    ELSE compare_two_mols(rmol, qmol, cutoff)

\* One iteration of `for rmol in mols_ref`; st = [names, dict, qpos].
MatchRmol(st, rmol, mols_query, sdf_query, sdf_ref, sdf_tag, cutoff) ==
    LET mol_name == rmol.title
        ref_nconfs == Len(rmol.confs)
        found == ScanQuery(mols_query, st.qpos, mol_name)
        run_match == found # 0
        known == mol_name \in DOMAIN st.dict
        names1 == IF known THEN st.names ELSE Append(st.names, mol_name)
        dict1 == IF known THEN st.dict ELSE st.dict @@ (mol_name :> NewEntry)
    IN  IF ~run_match
        THEN [names |-> names1,
              dict |-> [dict1 EXCEPT ![mol_name] =
                          [indices |-> Append(@.indices, Repeat(-2, ref_nconfs)),
                           energies |-> Append(@.energies, Repeat(NaN, ref_nconfs)),
                           ref_nconfs |-> Append(@.ref_nconfs, ref_nconfs)]],
              qpos |-> 0]
        ELSE LET qmol == mols_query[found]
                 sd == get_sd_list(qmol, sdf_tag)
             IN  [names |-> names1,
                  dict |-> [dict1 EXCEPT ![mol_name] =
                              [indices |-> Append(@.indices,
                                   IndicesOfFound(rmol, qmol, sdf_query, sdf_ref, cutoff)),
                               energies |-> Append(@.energies,
                                   [k \in DOMAIN sd |-> Float(sd[k])]),
                               ref_nconfs |-> @.ref_nconfs]],
                  qpos |-> found]

RECURSIVE MatchLoop(_, _, _, _, _, _, _, _)
MatchLoop(st, mols_ref, i, mols_query, sdf_query, sdf_ref, sdf_tag, cutoff) ==
    IF i > Len(mols_ref)
    THEN st
    ELSE MatchLoop(MatchRmol(st, mols_ref[i], mols_query, sdf_query, sdf_ref,
                             sdf_tag, cutoff),
                   mols_ref, i + 1, mols_query, sdf_query, sdf_ref, sdf_tag, cutoff)

\* The body of `for ff_label, ff_dict in in_dict.items()` for the k-th method.
MatchOneMethod(names, dict, cfg, fs, k, cutoff) ==
    LET sdf_ref == cfg[1].sdfile
        sdf_query == cfg[k].sdfile
        sdf_tag == cfg[k].sdtag
    IN  MatchLoop([names |-> names, dict |-> dict, qpos |-> 0],
                  fs[sdf_ref], 1, fs[sdf_query], sdf_query, sdf_ref, sdf_tag, cutoff)

RECURSIVE MatchMethods(_, _, _, _, _, _)
MatchMethods(names, dict, cfg, fs, k, cutoff) ==
    IF k > Len(cfg)
    THEN [names |-> names, dict |-> dict]
    ELSE LET st == MatchOneMethod(names, dict, cfg, fs, k, cutoff)
         IN  MatchMethods(st.names, st.dict, cfg, fs, k + 1, cutoff)

\* match_minima(in_dict, rmsd_cutoff) on the files fs.
match_minima(cfg, fs, cutoff) == MatchMethods(<<>>, <<>>, cfg, fs, 1, cutoff)

(***************************************************************************)
(* extract_matches.                                                        *)
(***************************************************************************)
\* The list element energy_array[i][k] the entry reads (0-based), or -1 when
\* the entry reads none.
EnergyRead(conf_index, j, energies_i) ==
    IF conf_index = None \/ conf_index = -2 \/ Len(energies_i) = 0
    THEN -1
    ELSE IF conf_index = -1 THEN j ELSE conf_index

\* The matched index ignored: the energy at the reference position.
MatchedEnergy_ByPosition(conf_index, j, energies_i) ==
    IF conf_index = None THEN NaN
    ELSE IF conf_index = -2 THEN NaN
    ELSE IF Len(energies_i) = 0 THEN NaN
    ELSE IF j < Len(energies_i) THEN energies_i[j + 1]
    ELSE energies_i[1]

\* fileData entry for position j (0-based) of one method's row.
MatchedEnergy(conf_index, j, energies_i) ==
    IF conf_index = None THEN NaN
    ELSE IF conf_index = -2 THEN NaN
    ELSE IF Len(energies_i) = 0 THEN NaN
    ELSE IF conf_index = -1 THEN energies_i[j + 1]
    ELSE energies_i[conf_index + 1]

ExtractRow(file_indices, energies_i) ==
    [p \in DOMAIN file_indices |-> MatchedEnergy(file_indices[p], p - 1, energies_i)]

ExtractMol(entry) ==
    [i \in DOMAIN entry.indices |-> ExtractRow(entry.indices[i], entry.energies[i])]

\* list index out of range in extract_matches
ExtractRaisesMol(entry) ==
    \E i \in DOMAIN entry.indices : \E p \in DOMAIN entry.indices[i] :
        EnergyRead(entry.indices[i][p], p - 1, entry.energies[i])
            >= Len(entry.energies[i])

ExtractRaises(dict) == \E m \in DOMAIN dict : ExtractRaisesMol(dict[m])

\* matched_enes as main collects it, in the dictionary's key order.
MatchedEnes(names, dict) == [n \in DOMAIN names |-> ExtractMol(dict[names[n]])]

(***************************************************************************)
(* calc_rel_ene.                                                           *)
(***************************************************************************)
\* nan_cnt[j]: the number of rows whose value at position j is NaN.
NanCnt(mol_array) ==
    [j \in 1..Len(mol_array[1]) |->
        Cardinality({f \in DOMAIN mol_array : IsNaN(mol_array[f][j])})]

\* file_enes[j] for j in range(ref_nconfs) on a row shorter than the first
RelEneRaisesMol(mol_array) ==
    \E f \in DOMAIN mol_array : Len(mol_array[f]) < Len(mol_array[1])

\* no_nan_conf_inds when the while loop ends (1-based positions): the
\* positions whose count equals the first cnt in 0..ref_nconfs-1 that some
\* position has, the empty set when no such cnt exists.
NoNanConfInds(nan_cnt) ==
    LET ref_nconfs == Len(nan_cnt)
        cnts == {t \in 0..(ref_nconfs - 1) : \E j \in DOMAIN nan_cnt : nan_cnt[j] = t}
    IN  IF cnts = {} THEN {}
        ELSE {j \in DOMAIN nan_cnt : nan_cnt[j] = Min(cnts)}

\* np.argmin over the reference row restricted to inds: the first NaN when
\* there is one, the first minimum otherwise.
ArgMinOver(row, inds) ==
    LET nans == {j \in inds : IsNaN(row[j])}
    IN  IF nans # {} THEN Min(nans)
        ELSE Min({j \in inds : \A k \in inds : row[j] <= row[k]})

\* lowest_conf_idx of one molecule, as the 0-based value the program stores.
LowestConfIdx(mol_array) ==
    LET nan_cnt == NanCnt(mol_array)
        no_nan_conf_inds == NoNanConfInds(nan_cnt)
    IN  IF no_nan_conf_inds # {}
        THEN ArgMinOver(mol_array[1], no_nan_conf_inds) - 1
        ELSE Min({j \in DOMAIN nan_cnt :
                    \A k \in DOMAIN nan_cnt : nan_cnt[j] <= nan_cnt[k]}) - 1

\* Float subtraction with NaN propagation.
FSub(x, y) == IF IsNaN(x) \/ IsNaN(y) THEN NaN ELSE x - y

\* Relative to the first conformer instead of conformer z.
RelRow_ToFirst(fileE, z) == [i \in DOMAIN fileE |-> FSub(fileE[i], fileE[1])]

RelRow(fileE, z) == [i \in DOMAIN fileE |-> FSub(fileE[i], fileE[z + 1])]

RelMol(molE, z) == [f \in DOMAIN molE |-> RelRow(molE[f], z)]

RelEneRaises(enes) == \E m \in DOMAIN enes : RelEneRaisesMol(enes[m])

LowestConfIndices(enes) == [m \in DOMAIN enes |-> LowestConfIdx(enes[m])]

RelEnergies(enes) ==
    [m \in DOMAIN enes |-> RelMol(enes[m], LowestConfIdx(enes[m]))]

(***************************************************************************)
(* calc_rms_error.                                                         *)
(***************************************************************************)
\* numpy cannot broadcast two 1-d arrays of different lengths unless one of
\* them has length 1.
BroadcastRaises(a, b) == Len(a) # Len(b) /\ Len(a) # 1 /\ Len(b) # 1

\* np.asarray(filelist) - np.asarray(mol_array[0])
Errs(filelist, ref) ==
    LET n == IF Len(filelist) >= Len(ref) THEN Len(filelist) ELSE Len(ref)
    IN  [j \in 1..n |->
            FSub(IF Len(filelist) = 1 THEN filelist[1] ELSE filelist[j],
                 IF Len(ref) = 1 THEN ref[1] ELSE ref[j])]

FSquare(x) == IF IsNaN(x) THEN NaN ELSE x * x

\* The reference conformer kept in the array.
Delete_Nothing(sqrs, z) == sqrs

\* np.delete(sqrs, z) for a 0-based z
Delete(sqrs, z) ==
    [j \in 1..(Len(sqrs) - 1) |-> IF j <= z THEN sqrs[j] ELSE sqrs[j + 1]]

NotNaN(x) == ~IsNaN(x)

\* np.mean as a reduced fraction; the mean of an empty array is 0/0.
Mean(xs) ==
    IF Len(xs) = 0 THEN <<0, 0>>
    ELSE LET g == Gcd(SeqSum(xs), Len(xs))
         IN  <<SeqSum(xs) \div g, Len(xs) \div g>>

\* np.sqrt, kept symbolic
Sqrt(mse) == [sqrt_of |-> mse]

Rmse(filelist, ref, z) ==
    LET errs == Errs(filelist, ref)
        sqrs == [j \in DOMAIN errs |-> FSquare(errs[j])]
        kept == SelectSeq(Delete(sqrs, z), NotNaN)
    IN  Sqrt(Mean(kept))

RmsMol(mol_array, z) ==
    [f \in DOMAIN mol_array |-> Rmse(mol_array[f], mol_array[1], z)]

RmsRaises(rel, lows) ==
    \E m \in DOMAIN rel : \E f \in DOMAIN rel[m] :
        BroadcastRaises(rel[m][f], rel[m][1])

RmsArray(rel, lows) == [m \in DOMAIN rel |-> RmsMol(rel[m], lows[m])]

(***************************************************************************)
(* write_rel_ene.                                                          *)
(***************************************************************************)
\* '%.4f' % x and f"{x:.4f}": NaN is written as the text nan.
Fmt4(x) == IF IsNaN(x) THEN [text |-> "nan", value |-> 0]
           ELSE [text |-> "%.4f", value |-> x]
Fmt4Rmse(r) == [text |-> IF r.sqrt_of[2] = 0 THEN "nan" ELSE "%.4f", value |-> r]

\* rmse[i] for a method without an RMSE, x[i] on a row shorter than the first
WriteRaisesMol(rmse, relEnes, ff_list) ==
    \/ Len(rmse) < Len(ff_list)
    \/ \E x \in DOMAIN relEnes : Len(relEnes[x]) < Len(relEnes[1])

\* The file written for one molecule: the conformer the energies are
\* relative to, one RMSE per method of ff_list and one line per position of
\* the first row.
RelEneFile(mol_name, rmse, relEnes, low_ind, ff_list) ==
    [mol_name |-> mol_name,
     low_ind |-> low_ind,
     rmsheader |-> [i \in DOMAIN ff_list |-> Fmt4Rmse(rmse[i])],
     lines |-> [i \in DOMAIN relEnes[1] |->
                  [x \in DOMAIN relEnes |-> Fmt4(relEnes[x][i])]]]

(***************************************************************************)
(* Inputs.  A conformer is [geom, sd]: its geometry and its SD data pairs. *)
(* A molecule is [title, confs]; a file is the list of molecules its       *)
(* reader yields, each with at least one conformer.                        *)
(***************************************************************************)
EnergyTag == <<"e">>
Numeral(n) == CASE n = 0 -> "0" [] n = 1 -> "1" [] n = 2 -> "2" [] OTHER -> "3"

SDs == {<<>>} \cup {<<[tag |-> <<"E">>, value |-> v]>> : v \in EnergyStrings}

SeqsOf(S, lo, hi) == UNION {[1..n -> S] : n \in lo..hi}

Method(file) == [sdfile |-> file, sdtag |-> EnergyTag]

\* The configurations: the reference method, then up to two query methods.
\* The first reads its own file or the reference file again; the second
\* reads the reference file again or a file that holds no molecule.
Configs ==
    {<<Method("ref")>>}
    \cup {<<Method("ref"), Method(f1)>> : f1 \in {"ref", "q1"}}
    \cup {<<Method("ref"), Method(f1), Method(f2)>> :
            f1 \in {"ref", "q1"}, f2 \in {"ref", "q2"}}

Uses(cfg, f) == \E k \in DOMAIN cfg : cfg[k].sdfile = f

\* One molecule in detail: reference conformers at distinct geometries with
\* any SD data, query conformers with any geometry and SD data.
RefMolsA ==
    {[title |-> "a", confs |-> [i \in DOMAIN s |-> [geom |-> i - 1, sd |-> s[i]]]] :
        s \in SeqsOf(SDs, 1, MaxConfs)}

QConfs == {[geom |-> g, sd |-> s] : g \in Geoms, s \in SDs}

QFilesA ==
    {<<>>} \cup {<<[title |-> "a", confs |-> c]>> : c \in SeqsOf(QConfs, 1, MaxConfs)}

InputsA ==
    {[cfg |-> c, fs |-> [ref |-> <<r>>, q1 |-> f1, q2 |-> <<>>], cutoff |-> co] :
        c \in Configs, r \in RefMolsA, f1 \in QFilesA, co \in Cutoffs}

\* Several molecules: any titles in any order, in both files, every
\* molecule with one or two conformers at geometries 0, 1 and energies 0, 1.
CanonMol(t, n) ==
    [title |-> t,
     confs |-> [i \in 1..n |->
                  [geom |-> i - 1,
                   sd |-> <<[tag |-> <<"E">>, value |-> Numeral(i - 1)]>>]]]

CanonMols == {CanonMol(t, n) : t \in Titles, n \in {1, 2}}

InputsB ==
    {[cfg |-> <<Method("ref"), Method("q1")>>,
      fs |-> [ref |-> r, q1 |-> f1, q2 |-> <<>>], cutoff |-> 0] :
        r \in SeqsOf(CanonMols, 1, MaxMols), f1 \in SeqsOf(CanonMols, 0, MaxMols)}

\* A file no method reads is left empty.
Inputs ==
    {x \in InputsA \cup InputsB : ~Uses(x.cfg, "q1") => x.fs.q1 = <<>>}

NoRead == [infile |-> <<>>, mol_slice |-> <<0, 1, 1>>]

NoCmp == [rmol |-> CanonMol("a", 1), qmol |-> CanonMol("a", 1), cutoff |-> 0]

Init ==
    /\ \E x \in Inputs : in_dict = x.cfg /\ files = x.fs /\ rmsd_cutoff = x.cutoff
    /\ pc = "match_minima"
    /\ error = "none"
    /\ method_idx = 1
    /\ mol_names = <<>>
    /\ mol_dict = <<>>
    /\ matched_enes = <<>>
    /\ rel_energies = <<>>
    /\ lowest_conf_indices = <<>>
    /\ rms_array = <<>>
    /\ report = <<>>
    /\ cmp_in = NoCmp
    /\ cmp_out = <<>>
    /\ read_in = NoRead
    /\ mlist = <<>>

(***************************************************************************)
(* main, one action per stage; match_minima takes one step per method.     *)
(***************************************************************************)
MatchMinimaStep ==
    /\ pc = "match_minima"
    /\ LET st == MatchOneMethod(mol_names, mol_dict, in_dict, files, method_idx,
                                rmsd_cutoff)
       IN  /\ mol_names' = st.names
           /\ mol_dict' = st.dict
    /\ method_idx' = method_idx + 1
    /\ pc' = IF method_idx = Len(in_dict) THEN "extract_matches" ELSE "match_minima"
    /\ UNCHANGED <<in_dict, files, rmsd_cutoff, error, matched_enes, rel_energies,
                   lowest_conf_indices, rms_array, report, cmp_in, cmp_out,
                   read_in, mlist>>

ExtractMatches ==
    /\ pc = "extract_matches"
    /\ IF ExtractRaises(mol_dict)
       THEN /\ pc' = "aborted"
            /\ error' = "IndexError"
            /\ UNCHANGED <<mol_dict, matched_enes>>
       ELSE /\ pc' = "calc_rel_ene"
            /\ mol_dict' = [m \in DOMAIN mol_dict |->
                              mol_dict[m] @@ [energies_matched |-> ExtractMol(mol_dict[m])]]
            /\ matched_enes' = MatchedEnes(mol_names, mol_dict)
            /\ UNCHANGED error
    /\ UNCHANGED <<in_dict, files, rmsd_cutoff, method_idx, mol_names, rel_energies,
                   lowest_conf_indices, rms_array, report, cmp_in, cmp_out,
                   read_in, mlist>>

CalcRelEne ==
    /\ pc = "calc_rel_ene"
    /\ IF RelEneRaises(matched_enes)
       THEN /\ pc' = "aborted"
            /\ error' = "IndexError"
            /\ UNCHANGED <<rel_energies, lowest_conf_indices>>
       ELSE /\ pc' = "calc_rms_error"
            /\ rel_energies' = RelEnergies(matched_enes)
            /\ lowest_conf_indices' = LowestConfIndices(matched_enes)
            /\ UNCHANGED error
    /\ UNCHANGED <<in_dict, files, rmsd_cutoff, method_idx, mol_names, mol_dict,
                   matched_enes, rms_array, report, cmp_in, cmp_out, read_in,
                   mlist>>

CalcRmsError ==
    /\ pc = "calc_rms_error"
    /\ IF RmsRaises(rel_energies, lowest_conf_indices)
       THEN /\ pc' = "aborted"
            /\ error' = "ValueError"
            /\ UNCHANGED rms_array
       ELSE /\ pc' = "write_rel_ene"
            /\ rms_array' = RmsArray(rel_energies, lowest_conf_indices)
            /\ UNCHANGED error
    /\ UNCHANGED <<in_dict, files, rmsd_cutoff, method_idx, mol_names, mol_dict,
                   matched_enes, rel_energies, lowest_conf_indices, report,
                   cmp_in, cmp_out, read_in, mlist>>

WriteRelEne ==
    /\ pc = "write_rel_ene"
    /\ IF \E i \in DOMAIN mol_names :
             WriteRaisesMol(rms_array[i], rel_energies[i], in_dict)
       THEN /\ pc' = "aborted"
            /\ error' = "IndexError"
            /\ UNCHANGED report
       ELSE /\ pc' = "done"
            /\ report' = [i \in DOMAIN mol_names |->
                            RelEneFile(mol_names[i], rms_array[i], rel_energies[i],
                                       lowest_conf_indices[i], in_dict)]
            /\ UNCHANGED error
    /\ UNCHANGED <<in_dict, files, rmsd_cutoff, method_idx, mol_names, mol_dict,
                   matched_enes, rel_energies, lowest_conf_indices, rms_array,
                   cmp_in, cmp_out, read_in, mlist>>

Next ==
    \/ MatchMinimaStep
    \/ ExtractMatches
    \/ CalcRelEne
    \/ CalcRmsError
    \/ WriteRelEne

Spec == Init /\ [][Next]_vars

(***************************************************************************)
(* compare_two_mols on its own: any reference and query conformers on the  *)
(* points 0..2 and any cutoff in 0..2.                                     *)
(***************************************************************************)
CmpGeoms == {0, 1, 2}

CmpMols ==
    {[title |-> "a", confs |-> [i \in DOMAIN g |-> [geom |-> g[i], sd |-> <<>>]]] :
        g \in SeqsOf(CmpGeoms, 1, MaxConfs)}

InitCmp ==
    /\ cmp_in \in [rmol : CmpMols, qmol : CmpMols, cutoff : CmpGeoms]
    /\ cmp_out = <<>>
    /\ pc = "compare_two_mols"
    /\ in_dict = <<Method("ref")>>
    /\ files = [ref |-> <<>>, q1 |-> <<>>, q2 |-> <<>>]
    /\ rmsd_cutoff = 0
    /\ error = "none"
    /\ method_idx = 1
    /\ mol_names = <<>>
    /\ mol_dict = <<>>
    /\ matched_enes = <<>>
    /\ rel_energies = <<>>
    /\ lowest_conf_indices = <<>>
    /\ rms_array = <<>>
    /\ report = <<>>
    /\ read_in = NoRead
    /\ mlist = <<>>

CompareTwoMols ==
    /\ pc = "compare_two_mols"
    /\ cmp_out' = compare_two_mols(cmp_in.rmol, cmp_in.qmol, cmp_in.cutoff)
    /\ pc' = "compared"
    /\ UNCHANGED <<in_dict, files, rmsd_cutoff, error, method_idx, mol_names,
                   mol_dict, matched_enes, rel_energies, lowest_conf_indices,
                   rms_array, report, cmp_in, read_in, mlist>>

NextCmp == CompareTwoMols

SpecCmp == InitCmp /\ [][NextCmp]_vars

(***************************************************************************)
(* read_mols with a slice.  The molecule generator is the file and the     *)
(* number of molecules already taken from it; a molecule is known by its   *)
(* index in the file.                                                      *)
(***************************************************************************)
MaxFileLen == 4
MaxStep == 3

\* incrementer(count, mols, step) with pos molecules already taken from a
\* generator of n: the count it returns, the molecules taken afterwards,
\* and whether next(mols) raised StopIteration.
incrementer(count, pos, n, step) ==
    IF step = 1
    THEN [count |-> count + 1, pos |-> pos, stopped |-> FALSE]
    ELSE IF pos + (step - 1) > n
         THEN [count |-> count, pos |-> n, stopped |-> TRUE]
         ELSE [count |-> count + (step - 1), pos |-> pos + (step - 1),
               stopped |-> FALSE]

\* `for i, m in enumerate(mols)` from the state (pos, count, out) on.
RECURSIVE SliceLoop(_, _, _, _, _)
SliceLoop(mols, pos, count, out, mol_slice) ==
    IF pos >= Len(mols)
    THEN out
    ELSE LET m == mols[pos + 1]
         IN  IF count >= mol_slice[2]
             THEN out
             ELSE IF count < mol_slice[1]
             THEN SliceLoop(mols, pos + 1, count + 1, out, mol_slice)
             ELSE LET inc == incrementer(count, pos + 1, Len(mols), mol_slice[3])
                  IN  IF inc.stopped
                      THEN Append(out, m)
                      ELSE SliceLoop(mols, inc.pos, inc.count, Append(out, m),
                                     mol_slice)

\* The check that raises ValueError.
SliceRaises(mol_slice) ==
    Len(mol_slice) # 3 \/ mol_slice[1] >= mol_slice[2] \/ mol_slice[3] <= 0

read_mols(infile, mol_slice) == SliceLoop(infile, 0, 0, <<>>, mol_slice)

FileOfLen(L) == [i \in 1..L |-> i - 1]

ReadInputs ==
    {[infile |-> FileOfLen(L), mol_slice |-> sl] :
        L \in 0..MaxFileLen,
        sl \in {<<0, 1>>} \cup
               ((0..MaxFileLen) \X (0..(MaxFileLen + 1)) \X (0..MaxStep))}

InitRead ==
    /\ read_in \in ReadInputs
    /\ mlist = <<>>
    /\ pc = "read_mols"
    /\ error = "none"
    /\ cmp_in = NoCmp
    /\ cmp_out = <<>>
    /\ in_dict = <<Method("ref")>>
    /\ files = [ref |-> <<>>, q1 |-> <<>>, q2 |-> <<>>]
    /\ rmsd_cutoff = 0
    /\ method_idx = 1
    /\ mol_names = <<>>
    /\ mol_dict = <<>>
    /\ matched_enes = <<>>
    /\ rel_energies = <<>>
    /\ lowest_conf_indices = <<>>
    /\ rms_array = <<>>
    /\ report = <<>>

ReadMols ==
    /\ pc = "read_mols"
    /\ IF SliceRaises(read_in.mol_slice)
       THEN /\ pc' = "aborted"
            /\ error' = "ValueError"
            /\ UNCHANGED mlist
       ELSE /\ pc' = "read"
            /\ mlist' = read_mols(read_in.infile, read_in.mol_slice)
            /\ UNCHANGED error
    /\ UNCHANGED <<in_dict, files, rmsd_cutoff, method_idx, mol_names, mol_dict,
                   matched_enes, rel_energies, lowest_conf_indices, rms_array,
                   report, cmp_in, cmp_out, read_in>>

NextRead == ReadMols

SpecRead == InitRead /\ [][NextRead]_vars

(***************************************************************************)
(* Properties.                                                             *)
(***************************************************************************)
\* The reference molecules titled t, in file order.
RefOcc(t) ==
    LET Titled(m) == m.title = t
    IN  SelectSeq(files.ref, Titled)

\* The row of a molecule record that method k appended for the o-th
\* reference molecule of that title: every method appends one row per
\* reference molecule.
RowOf(t, k, o) == (k - 1) * Len(RefOcc(t)) + o

\* The reference molecule that row r of the record of title t was made for.
RmolOfRow(t, r) == RefOcc(t)[((r - 1) % Len(RefOcc(t))) + 1]

Extracted == pc \in {"calc_rel_ene", "calc_rms_error", "write_rel_ene", "done"}
RelDone == pc \in {"calc_rms_error", "write_rel_ene", "done"}
RmsDone == pc \in {"write_rel_ene", "done"}

\* C1: after any number of methods, every row of indices stored for a
\* molecule has exactly as many entries as the reference molecule it was
\* made for has conformers, whichever branch of match_minima made it.
C1_IndexRowsHaveRefLength ==
    \A m \in DOMAIN mol_dict : \A r \in DOMAIN mol_dict[m].indices :
        Len(mol_dict[m].indices[r]) = Len(RmolOfRow(m, r).confs)

\* A record of a two-conformer molecule that holds a self-reference row, a
\* molecule-absent row and a row made by compare_two_mols.
C1_Witness ==
    \E m \in DOMAIN mol_dict :
        /\ Len(RefOcc(m)) = 1
        /\ Len(RefOcc(m)[1].confs) = 2
        /\ \E r1, r2, r3 \in DOMAIN mol_dict[m].indices :
            /\ mol_dict[m].indices[r1] = <<-1, -1>>
            /\ mol_dict[m].indices[r2] = <<-2, -2>>
            /\ \A p \in DOMAIN mol_dict[m].indices[r3] :
                   mol_dict[m].indices[r3][p] \notin {-1, -2}

\* The distances from reference conformer r of the compared molecules.
CmpDist(r, q) == OERMSD(cmp_in.rmol.confs[r], cmp_in.qmol.confs[q])
CmpMinDist(r) == Min({CmpDist(r, q) : q \in DOMAIN cmp_in.qmol.confs})

\* C2: for each reference conformer r, compare_two_mols returns the lowest
\* query index at the minimum distance when that minimum is <= cutoff and
\* None exactly when the minimum exceeds the cutoff; every entry is None or
\* an index in [0, N); with cutoff 0 a non-None entry has distance zero.
C2_CompareTwoMols ==
    pc = "compared" =>
        /\ DOMAIN cmp_out = DOMAIN cmp_in.rmol.confs
        /\ \A r \in DOMAIN cmp_out :
            LET N == Len(cmp_in.qmol.confs)
                best == {q \in 1..N : CmpDist(r, q) = CmpMinDist(r)}
            IN  /\ (cmp_out[r] = None) <=> (CmpMinDist(r) > cmp_in.cutoff)
                /\ CmpMinDist(r) <= cmp_in.cutoff =>
                       /\ cmp_out[r] + 1 \in best
                       /\ \A q \in best : cmp_out[r] + 1 <= q
                /\ cmp_out[r] = None \/ cmp_out[r] \in 0..(N - 1)
                /\ (cmp_in.cutoff = 0 /\ cmp_out[r] # None) =>
                       \E q \in 1..N : CmpDist(r, q) = 0

\* A comparison with a tie that the first query conformer wins, a match at
\* a later query conformer and a reference conformer without a match.
C2_Witness ==
    /\ pc = "compared"
    /\ \E r \in DOMAIN cmp_out :
        /\ cmp_out[r] = 0
        /\ Cardinality({q \in DOMAIN cmp_in.qmol.confs :
                          CmpDist(r, q) = CmpMinDist(r)}) > 1
    /\ \E r \in DOMAIN cmp_out : cmp_out[r] = None
    /\ cmp_in.cutoff = 1

MissingCount(mol_array, j) ==
    Cardinality({f \in DOMAIN mol_array : IsNaN(mol_array[f][j])})

\* C4: the index z chosen for a molecule is a position of minimal
\* missing-count, and among the positions of that missing-count it has the
\* lowest energy in row 0.
C4_LowestAmongLeastMissing ==
    RelDone =>
        \A m \in DOMAIN matched_enes :
            LET tab == matched_enes[m]
                z == lowest_conf_indices[m] + 1
            IN  \A j \in DOMAIN tab[1] :
                    /\ MissingCount(tab, z) <= MissingCount(tab, j)
                    /\ (MissingCount(tab, j) = MissingCount(tab, z)
                            /\ ~IsNaN(tab[1][j])) =>
                           (~IsNaN(tab[1][z]) /\ tab[1][z] <= tab[1][j])

\* C5 as claimed: the relative energy at z is exactly 0 in every row.
C5_ZeroAtReference ==
    RelDone =>
        \A m \in DOMAIN rel_energies : \A f \in DOMAIN rel_energies[m] :
            rel_energies[m][f][lowest_conf_indices[m] + 1] = 0

\* C5, amended: the relative energy at z is exactly 0 in every row whose
\* matched energy at z is not missing, and missing in every other row.
C5_ZeroAtReferenceUnlessMissing ==
    RelDone =>
        \A m \in DOMAIN rel_energies : \A f \in DOMAIN rel_energies[m] :
            LET z == lowest_conf_indices[m] + 1
            IN  IF IsNaN(matched_enes[m][f][z])
                THEN IsNaN(rel_energies[m][f][z])
                ELSE rel_energies[m][f][z] = 0

\* A molecule with z at its second position, a row that has a missing value
\* elsewhere and 0 at z, and a row whose value at z is missing.
C5_Witness ==
    /\ RelDone
    /\ \E m \in DOMAIN rel_energies :
        /\ lowest_conf_indices[m] = 1
        /\ \E f, g \in DOMAIN rel_energies[m] :
            /\ IsNaN(matched_enes[m][f][1])
            /\ ~IsNaN(matched_enes[m][f][2])
            /\ rel_energies[m][f][2] = 0
            /\ IsNaN(matched_enes[m][g][2])
            /\ IsNaN(rel_energies[m][g][2])

RECURSIVE SumOver(_, _)
SumOver(S, val) ==
    IF S = {} THEN 0
    ELSE LET x == CHOOSE y \in S : TRUE
         IN  val[x] + SumOver(S \ {x}, val)

\* C6: the RMS error of a row is the root of the population mean of
\* (relative_method[j] - relative_reference[j])^2 over exactly the positions
\* j # z where neither value is missing, and NaN when there is none.
C6_RmsError ==
    RmsDone =>
        \A m \in DOMAIN rms_array : \A f \in DOMAIN rms_array[m] :
            LET row == rel_energies[m][f]
                ref == rel_energies[m][1]
                z == lowest_conf_indices[m] + 1
                J == {j \in DOMAIN row \cap DOMAIN ref :
                        j # z /\ ~IsNaN(row[j]) /\ ~IsNaN(ref[j])}
                sq == [j \in J |-> (row[j] - ref[j]) * (row[j] - ref[j])]
                mse == rms_array[m][f].sqrt_of
            IN  /\ (mse[2] = 0) <=> (J = {})
                /\ mse[1] * Cardinality(J) = SumOver(J, sq) * mse[2]

Pipeline(cfg, fs, cutoff) ==
    LET md == match_minima(cfg, fs, cutoff)
        enes == MatchedEnes(md.names, md.dict)
        rel == RelEnergies(enes)
        low == LowestConfIndices(enes)
    IN  IF ExtractRaises(md.dict) \/ RelEneRaises(enes) \/ RmsRaises(rel, low)
        THEN [ok |-> FALSE, names |-> md.names, low |-> <<>>, rel |-> <<>>,
              rms |-> <<>>]
        ELSE [ok |-> TRUE, names |-> md.names, low |-> low, rel |-> rel,
              rms |-> RmsArray(rel, low)]

\* The configuration without its q-th method.
WithoutMethod(cfg, q) ==
    [k \in 1..(Len(cfg) - 1) |-> IF k < q THEN cfg[k] ELSE cfg[k + 1]]

\* The method that appended row r of the record of title t.
MethodOfRow(t, r) == ((r - 1) \div Len(RefOcc(t))) + 1

\* The rows of a table of the molecule titled t that method q did not append.
DropRows(tab, t, q) ==
    LET keep == {r \in DOMAIN tab : MethodOfRow(t, r) # q}
        Kth(k) == CHOOSE r \in keep : Cardinality({x \in keep : x <= r}) = k
    IN  [k \in 1..Cardinality(keep) |-> tab[Kth(k)]]

AllNaN(row) == \A j \in DOMAIN row : IsNaN(row[j])

Holds(fs, f, t) == \E i \in DOMAIN fs[f] : fs[f][i].title = t

\* C8: when a reference molecule is wholly absent from query method q, the
\* matched and relative rows of q for it are entirely missing and its RMS
\* error is NaN, and z, the relative energies and the RMS errors of every
\* other method, for this and for every other molecule, are those of a run
\* in which q is not configured.
C8_AbsentMethodChangesNothing ==
    RmsDone =>
        \A q \in 2..Len(in_dict) : \A i \in DOMAIN mol_names :
            ~Holds(files, in_dict[q].sdfile, mol_names[i]) =>
                LET other == Pipeline(WithoutMethod(in_dict, q), files, rmsd_cutoff)
                IN  /\ \A r \in DOMAIN rel_energies[i] :
                        MethodOfRow(mol_names[i], r) = q =>
                            /\ AllNaN(matched_enes[i][r])
                            /\ AllNaN(rel_energies[i][r])
                            /\ rms_array[i][r] = Sqrt(<<0, 0>>)
                    /\ other.ok
                    /\ other.names = mol_names
                    /\ other.low = lowest_conf_indices
                    /\ \A n \in DOMAIN mol_names :
                        /\ DropRows(rel_energies[n], mol_names[n], q) = other.rel[n]
                        /\ DropRows(rms_array[n], mol_names[n], q) = other.rms[n]

MatchDone == pc \in {"extract_matches", "calc_rel_ene", "calc_rms_error",
                     "write_rel_ene", "done", "aborted"}

\* C9: for every reference molecule and method, whatever the order of the
\* molecules in the two files, the molecule is recorded as absent (indices
\* all -2, energies all NaN) only if the method's file holds no molecule of
\* its title, and when one exists the first of that title is the one used.
C9_AbsentOnlyIfNoSuchTitle ==
    MatchDone =>
        \A k \in DOMAIN in_dict : \A t \in DOMAIN mol_dict :
            \A o \in DOMAIN RefOcc(t) :
                LET rmol == RefOcc(t)[o]
                    r == RowOf(t, k, o)
                    sdf_query == in_dict[k].sdfile
                    hits == {i \in DOMAIN files[sdf_query] :
                               files[sdf_query][i].title = t}
                    sd == get_sd_list(files[sdf_query][Min(hits)], in_dict[k].sdtag)
                IN  /\ (/\ mol_dict[t].indices[r] = Repeat(-2, Len(rmol.confs))
                        /\ mol_dict[t].energies[r] = Repeat(NaN, Len(rmol.confs)))
                           => hits = {}
                    /\ hits # {} =>
                        /\ mol_dict[t].indices[r] =
                               IndicesOfFound(rmol, files[sdf_query][Min(hits)],
                                              sdf_query, in_dict[1].sdfile, rmsd_cutoff)
                        /\ mol_dict[t].energies[r] = [x \in DOMAIN sd |-> Float(sd[x])]

\* C10: no anomaly of a molecule or a method aborts the run, and the report
\* holds, for every molecule, one line per reference conformer with one
\* value per method, and one RMS error per method, NaN written as nan.
C10_RunNeverAborts ==
    /\ pc # "aborted"
    /\ pc = "done" =>
        /\ Len(report) = Len(mol_names)
        /\ \A i \in DOMAIN report :
            /\ Len(report[i].lines) = Len(RefOcc(mol_names[i])[1].confs)
            /\ Len(report[i].rmsheader) = Len(in_dict)
            /\ \A l \in DOMAIN report[i].lines :
                   Len(report[i].lines[l]) >= Len(in_dict)

\* C11: in calc_rel_ene, for every molecule and any number of methods, the
\* scan over the missing-counts ends with a non-empty candidate set, so the
\* fallback branch is not the one that chooses z.
C11_FallbackNeverTaken ==
    RelDone =>
        \A m \in DOMAIN matched_enes :
            NoNanConfInds(NanCnt(matched_enes[m])) # {}

\* C12: after k methods every molecule record holds exactly k rows of
\* indices and k rows of energies, K of each once match_minima has ended,
\* and row i is the row of the i-th method: a self-reference row exactly
\* when that method reads the reference file.
C12_OneRowPerMethod ==
    \A t \in DOMAIN mol_dict :
        /\ Len(mol_dict[t].indices) = method_idx - 1
        /\ Len(mol_dict[t].energies) = method_idx - 1
        /\ MatchDone => Len(mol_dict[t].indices) = Len(in_dict)
        /\ \A i \in DOMAIN mol_dict[t].indices :
            /\ i \in DOMAIN in_dict
            /\ (in_dict[i].sdfile = in_dict[1].sdfile) <=>
                   (\A p \in DOMAIN mol_dict[t].indices[i] :
                        mol_dict[t].indices[i][p] = -1)

\* The energy of a conformer: its first data field whose tag contains the
\* tag name, as a list of zero or one numbers.
EnergyOfConf(conf, taglabel) ==
    LET sd == SdOfConf(conf, taglabel)
    IN  [x \in DOMAIN sd |-> Float(sd[x])]

\* C13: the raw energies stored for a molecule found in a method's file are
\* those of a molecule of that title in the file: as many values as it has
\* conformers, the k-th being the energy of its k-th conformer, whichever
\* conformers carry a matching field.
C13_OneEnergyPerConformer ==
    \A t \in DOMAIN mol_dict : \A r \in DOMAIN mol_dict[t].indices :
        LET qfile == files[in_dict[MethodOfRow(t, r)].sdfile]
            sdtag == in_dict[MethodOfRow(t, r)].sdtag
            raw == mol_dict[t].energies[r]
        IN  (\E p \in DOMAIN mol_dict[t].indices[r] :
                 mol_dict[t].indices[r][p] # -2) =>
                \E q \in DOMAIN qfile :
                    /\ qfile[q].title = t
                    /\ Len(raw) = Len(qfile[q].confs)
                    /\ \A k \in DOMAIN qfile[q].confs :
                        LET e == EnergyOfConf(qfile[q].confs[k], sdtag)
                        IN  e # <<>> => raw[k] = e[1]

\* m[start:stop:step] of a list m, for step >= 1.
PySlice(m, start, stop, step) ==
    LET hi == IF stop < Len(m) THEN stop ELSE Len(m)
        n == Cardinality({i \in start..(hi - 1) : (i - start) % step = 0})
    IN  [k \in 1..n |-> m[start + (k - 1) * step + 1]]

\* C14: read_mols with mol_slice = [start, stop, step], start < stop and
\* step >= 1, returns in order exactly the molecules at the indices start,
\* start+step, start+2*step, ... below min(stop, L): the slice
\* m[start:stop:step].
C14_ReadMolsIsSlice ==
    pc = "read" =>
        mlist = PySlice(read_in.infile, read_in.mol_slice[1],
                        read_in.mol_slice[2], read_in.mol_slice[3])

====
